---- MODULE Spec2Model ----
(***************************************************************************)
(* Model of the OpenAI-compatible reverse proxy (src/src/index.js and      *)
(* src/src/venus.js): the chat and completions routes, the request         *)
(* normalisation done by the chat route, the synchronous forwarder         *)
(* handleNonStreaming and the streaming relay handleStreaming.             *)
(*                                                                         *)
(* One JavaScript turn (the code between two awaits, or one event          *)
(* callback) is one action.  The Express response object `res`, the axios  *)
(* promise and the upstream readable stream are modelled by what the code  *)
(* does to them and by the events they deliver to the code.                *)
(***************************************************************************)
EXTENDS Integers, Sequences, FiniteSets, TLC

VARIABLES
    cfg,        \* the configuration read at start-up (read-only afterwards)
    pc,         \* pc[r]: where the handler of request r stands
    route,      \* route[r]: the route that received request r
    inb,        \* inb[r]: the body as the client sent it
    fwd,        \* fwd[r]: the upstream request issued for r
    res,        \* res[r]: the response object of r
    up,         \* up[r]: the upstream response stream of r
    cli,        \* cli[r]: the client's side of the connection of r
    uuidCount,  \* number of identifiers uuidv4 has produced so far
    req,        \* req[r]: the headers of request r as the client sent them
    out         \* out[r]: method, headers and data of the upstream request of r

vars == <<cfg, pc, route, inb, fwd, res, up, cli, uuidCount, req, out>>

----------------------------------------------------------------------------
(* Bounds of the model *)

\* longest `messages` array a client sends
MaxMsgs == 2
\* most chunks an upstream stream delivers before it ends or fails
MaxChunks == 2
\* most events an upstream stream delivers after its end or error event
MaxLate == 1
\* chunks the client-side buffer holds before it counts as saturated
HighWaterMark == 1

\* longest inbound Authorization value, in units
MaxAuth == 4

\* the request slots of the model
Reqs == {1, 2}

----------------------------------------------------------------------------
(* JavaScript values of the body fields *)

Undefined == [tag |-> "undefined", s |-> "", b |-> FALSE, n |-> 0]
Str(s) == [tag |-> "string", s |-> s, b |-> FALSE, n |-> 0]
Bool(b) == [tag |-> "boolean", s |-> "", b |-> b, n |-> 0]

\* the template string `query_${uuid}`, uuid being the n-th identifier
QueryId(n) == [tag |-> "string", s |-> "query_", b |-> FALSE, n |-> n]

\* JavaScript truthiness: undefined, '' and false are falsy
Truthy(v) ==
    \/ v.tag = "string" /\ (v.s # "" \/ v.n # 0)
    \/ v.tag = "boolean" /\ v.b

\* `messages`: absent, or an array of {role, content}
NoMessages == [present |-> FALSE, items |-> <<>>]
Messages(items) == [present |-> TRUE, items |-> items]

SystemMessage == [role |-> "system", content |-> ""]

Msgs == {[role |-> "user", content |-> "hi"], [role |-> "system", content |-> "be brief"],
         SystemMessage}

SeqsUpTo(S, n) == UNION {[1..k -> S] : k \in 0..n}

MessagesValues == {NoMessages} \cup {Messages(m) : m \in SeqsUpTo(Msgs, MaxMsgs)}
QueryIdValues == {Undefined, Str(""), Str("q-client")}
ModelValues == {Undefined, Str(""), Str("m-client")}
StreamValues == {Undefined, Bool(TRUE), Bool(FALSE), Str("yes")}

\* the bodies a client sends to the chat route
Bodies ==
    [query_id : QueryIdValues, messages : MessagesValues,
     model : ModelValues, stream : StreamValues]

\* the bodies a client sends to the completions route
CompletionBodies ==
    [query_id : {Undefined}, messages : {NoMessages},
     model : {Str("m-client")}, stream : StreamValues]

\* chat bodies that differ in `stream` alone, for the runs of the relay
RelayBodies ==
    [query_id : {Undefined},
     messages : {Messages(<<[role |-> "user", content |-> "hi"]>>)},
     model : {Undefined}, stream : StreamValues]

\* chat bodies that differ in `query_id` and `stream`, for the runs with
\* concurrent requests
FewBodies ==
    [query_id : QueryIdValues,
     messages : {Messages(<<[role |-> "user", content |-> "hi"]>>)},
     model : {Undefined}, stream : {Undefined, Bool(FALSE)}]

NoBody == [query_id |-> Undefined, messages |-> NoMessages,
           model |-> Undefined, stream |-> Undefined]

----------------------------------------------------------------------------
(* What is written to a response: chunks of bytes, SSE frames, JSON bodies *)

\* raw bytes: an upstream chunk, or a literal frame
Bytes(text) == [kind |-> "bytes", text |-> text, prefix |-> "", m |-> ""]

\* `data: ${JSON.stringify({ error: { message: `${prefix}${m}` } })}\n\n`
ErrorFrame(prefix, m) ==
    [kind |-> "errorFrame", text |-> "data: {\"error\":{\"message\":$}}\n\n",
     prefix |-> prefix, m |-> m]

\* 'data: [DONE]\n\n'
DoneFrame == Bytes("data: [DONE]\n\n")

\* res.json({ error: { message: `${prefix}${m}`, type: 'server_error' } })
ErrorEnvelope(prefix, m) ==
    [kind |-> "errorJson", text |-> "{\"error\":{\"message\":$,\"type\":\"server_error\"}}",
     prefix |-> prefix, m |-> m]

\* res.json(data) of an upstream JSON body
JsonBody(data) == [kind |-> "json", text |-> data, prefix |-> "", m |-> ""]

\* the chunks an upstream stream delivers
Chunks == {"data: {\"choice\":1}\n\n", "data: [DONE]\n\n"}

\* the messages of the errors an upstream stream raises
StreamErrors == {"ECONNRESET"}

----------------------------------------------------------------------------
(* The response object `res` (Express on Node's http.ServerResponse) *)

NoHeaders == [contentType |-> "", cacheControl |-> "", connection |-> ""]
SseHeaders ==
    [contentType |-> "text/event-stream", cacheControl |-> "no-cache",
     connection |-> "keep-alive"]
JsonHeaders == [contentType |-> "application/json", cacheControl |-> "", connection |-> ""]

NewRes ==
    [statusCode |-> 200, headers |-> NoHeaders,
     headSent |-> FALSE, head |-> [status |-> 0, headers |-> NoHeaders],
     body |-> <<>>, ended |-> FALSE, endCalls |-> 0, afterEnd |-> 0]

\* the status line and headers go out, once, with the first write or end
Flush(r) ==
    IF r.headSent THEN r
    ELSE [r EXCEPT !.headSent = TRUE,
                   !.head = [status |-> r.statusCode, headers |-> r.headers]]

\* res.status(n)
ResStatus(r, n) == [r EXCEPT !.statusCode = n]

\* res.set(h)
ResSet(r, h) == [r EXCEPT !.headers = h]

\* res.writeHead(n, h)
ResWriteHead(r, n, h) == Flush([r EXCEPT !.statusCode = n, !.headers = h])

\* res.write(x): after end() nothing reaches the client
ResWrite(r, x) ==
    IF r.ended THEN [r EXCEPT !.afterEnd = @ + 1]
    ELSE [Flush(r) EXCEPT !.body = Append(@, x)]

\* res.end()
ResEnd(r) ==
    IF r.ended THEN [r EXCEPT !.endCalls = @ + 1]
    ELSE [Flush(r) EXCEPT !.ended = TRUE, !.endCalls = @ + 1]

\* res.json(x): sets the JSON content type, sends x and ends the response
ResJson(r, x) ==
    IF r.headSent THEN [r EXCEPT !.afterEnd = @ + 1]
    ELSE ResEnd(ResWrite(ResSet(r, JsonHeaders), x))

----------------------------------------------------------------------------
(* The chat route's normalisation of the body (index.js 152-167) *)

\* a variant that takes one identifier for every request
NormQueryIdReused(b, n) ==
    IF ~Truthy(b.query_id) THEN [b EXCEPT !.query_id = QueryId(1)] ELSE b

\* if (!body.query_id) body.query_id = `query_${uuidv4()}`
NormQueryId(b, n) ==
    IF ~Truthy(b.query_id) THEN [b EXCEPT !.query_id = QueryId(n)] ELSE b

\* a variant that leaves a sole message alone when it is a system message
NormMessagesUnlessSystem(b) ==
    IF b.messages.present /\ Len(b.messages.items) = 1
       /\ b.messages.items[1].role # "system"
    THEN [b EXCEPT !.messages = Messages(<<[content |-> "", role |-> "system"]>>
                                          \o b.messages.items)]
    ELSE b

\* if (body.messages && body.messages.length === 1) prepend the system message
NormMessages(b) ==
    IF b.messages.present /\ Len(b.messages.items) = 1
    THEN [b EXCEPT !.messages = Messages(<<[content |-> "", role |-> "system"]>>
                                          \o b.messages.items)]
    ELSE b

\* a variant that defaults `model` only when the field is absent
NormModelWhenAbsent(b, c) ==
    IF b.model = Undefined THEN [b EXCEPT !.model = Str(c.modelName)] ELSE b

\* if (!body.model) body.model = modelName
NormModel(b, c) ==
    IF ~Truthy(b.model) THEN [b EXCEPT !.model = Str(c.modelName)] ELSE b

\* if (!body.stream) body.stream = enableStream
NormStream(b, c) ==
    IF ~Truthy(b.stream) THEN [b EXCEPT !.stream = Bool(c.enableStream)] ELSE b

\* the four steps, in the order of the code; n is the identifier uuidv4 returns
Normalize(b, n, c) == NormStream(NormModel(NormMessages(NormQueryId(b, n)), c), c)

----------------------------------------------------------------------------
(* The upstream call: what axios makes of the upstream's answer *)

\* the answers of the upstream to a POST: a status, or no answer at all (0)
UpstreamAnswers == {200, 201, 404, 500, 0}

StatusText(status) ==
    CASE status = 200 -> "OK"
      [] status = 201 -> "Created"
      [] status = 404 -> "Not Found"
      [] status = 500 -> "Internal Server Error"
      [] OTHER -> ""

\* axios resolves the promise for a 2xx status and rejects it otherwise
\* (the default validateStatus; httpClient sets none)
Settle(status) ==
    IF status >= 200 /\ status < 300
    THEN [kind |-> "resolve", status |-> status, text |-> StatusText(status)]
    ELSE IF status = 0
    THEN [kind |-> "reject", status |-> 0, text |-> "connect ECONNREFUSED"]
    ELSE [kind |-> "reject", status |-> status, text |-> "Request failed with status code"]

----------------------------------------------------------------------------
(* handleStreaming (index.js 99-144) *)

\* the upstream response: whether it was answered and with which status, whether
\* the callbacks are attached to its stream, the chunks the stream delivered
\* before its end or error event, that event, and the events delivered after it
NoStream ==
    [answered |-> FALSE, status |-> 0, headers |-> NoHeaders, attached |-> FALSE,
     sent |-> <<>>, term |-> "none", late |-> 0]

\* a variant that keeps the upstream's own [DONE] chunk to itself
OnDataSkipsDone(r, c) ==
    IF c = "data: [DONE]\n\n" THEN r ELSE ResWrite(r, Bytes(c))

\* response.data.on('data', chunk => res.write(chunk))
OnData(r, c) == ResWrite(r, Bytes(c))

\* response.data.on('end', () => res.end())
OnEnd(r) == ResEnd(r)

\* a variant that writes the error frame and ends without the [DONE] frame
OnErrorWithoutDone(r, m) ==
    ResEnd(ResWrite(r, ErrorFrame("Streaming error: ", m)))

\* response.data.on('error', error => { write error frame; write DONE; end })
OnError(r, m) ==
    ResEnd(ResWrite(ResWrite(r, ErrorFrame("Streaming error: ", m)), DoneFrame))

\* a variant without the check of response.status
AfterPostUnchecked(r, o) ==
    IF o.kind = "reject"
    THEN [res |-> ResEnd(ResWrite(ResWrite(ResStatus(r, 500),
                                           ErrorFrame("Streaming error: ", o.text)),
                                   DoneFrame)),
          pc |-> "failed", attached |-> FALSE]
    ELSE [res |-> ResWriteHead(r, 200, SseHeaders),
          pc |-> "relaying", attached |-> TRUE]

\* the code after `await httpClient.post(...)`: the promise settled as o
AfterPost(r, o) ==
    IF o.kind = "reject"
    THEN \* catch (error)
         [res |-> ResEnd(ResWrite(ResWrite(ResStatus(r, 500),
                                           ErrorFrame("Streaming error: ", o.text)),
                                   DoneFrame)),
          pc |-> "failed", attached |-> FALSE]
    ELSE IF o.status # 200
    THEN [res |-> ResEnd(ResWrite(ResStatus(r, o.status),
                                  ErrorFrame("Error from target API: ", o.text))),
          pc |-> "rejected", attached |-> FALSE]
    ELSE [res |-> ResWriteHead(r, 200, SseHeaders),
          pc |-> "relaying", attached |-> TRUE]

----------------------------------------------------------------------------
(* Headers.  A header value is a string, held as the sequence of its units   *)
(* (a unit is a piece such as "Bearer " or "sk-"), so that startsWith,       *)
(* substring and concatenation are those of sequences.  Header names are     *)
(* those of the wire, where case does not matter.                            *)

NoH == [present |-> FALSE, v |-> <<>>]
H(v) == [present |-> TRUE, v |-> v]

HeaderNames == {"host", "authorization", "wsid", "contentType", "xTrace"}

\* a header mapping without any header
EmptyHeaders == [h \in HeaderNames |-> NoH]

\* authHeader.startsWith(prefix)
StartsWith(a, prefix) ==
    Len(a) >= Len(prefix) /\ SubSeq(a, 1, Len(prefix)) = prefix

\* authHeader.substring(n)
Substring(a, n) == SubSeq(a, n + 1, Len(a))

\* a variant that strips the client prefix as often as the value starts with it
RECURSIVE StripAll(_, _)
StripAll(a, prefix) ==
    IF prefix # <<>> /\ StartsWith(a, prefix)
    THEN StripAll(Substring(a, Len(prefix)), prefix)
    ELSE a

PassthroughAuthStripsAll(authHeader, c) ==
    c.targetApiKeyPrefix \o StripAll(authHeader, c.apiKeyPrefix)

\* processAuthHeader of index.js: the client's token goes upstream
PassthroughAuth(authHeader, c) ==
    LET apiKey == IF StartsWith(authHeader, c.apiKeyPrefix)
                  THEN Substring(authHeader, Len(c.apiKeyPrefix))
                  ELSE authHeader
    IN c.targetApiKeyPrefix \o apiKey

\* a variant that sends the client's value after the upstream prefix
StaticTokenAuthKeepsClient(authHeader, c) == c.targetApiKeyPrefix \o authHeader

\* processAuthHeader of venus.js: the configured token goes upstream
StaticTokenAuth(authHeader, c) == c.targetApiKeyPrefix \o c.token

\* a variant that returns the inbound value
ProcessAuthHeaderRaw(authHeader, c) == authHeader

\* processAuthHeader of the entry point in use
ProcessAuthHeader(authHeader, c) ==
    IF c.variant = "index" THEN PassthroughAuth(authHeader, c)
    ELSE StaticTokenAuth(authHeader, c)

\* req.headers.authorization || ''
AuthOf(headers) ==
    IF headers["authorization"].present THEN headers["authorization"].v ELSE <<>>

\* the workspace header: index.js always sets it to WORKSPACE_ID, venus.js
\* sets it only when workspaceId is not empty
WithWsid(headers, c) ==
    IF c.variant = "index" \/ c.workspaceId # <<>>
    THEN [headers EXCEPT !["wsid"] = H(c.workspaceId)]
    ELSE headers

\* buildHeaders(authHeader)
BuildHeaders(authHeader, c) ==
    WithWsid([EmptyHeaders EXCEPT
                 !["authorization"] = H(ProcessAuthHeader(authHeader, c)),
                 !["contentType"] = H(<<"application/json">>)], c)

\* a variant of the catch-all route's headers that builds them afresh
CatchAllHeadersRebuilt(headers, c) == BuildHeaders(AuthOf(headers), c)

\* the headers of the catch-all route: a copy of the client's, with
\* authorization and wsid set and host deleted
CatchAllHeaders(headers, c) ==
    [WithWsid([headers EXCEPT
                  !["authorization"] = H(ProcessAuthHeader(AuthOf(headers), c))], c)
        EXCEPT !["host"] = NoH]

\* express.json(): the body is parsed when the request says it is JSON, and
\* req.body is {} otherwise
ExpressJson(headers, b) ==
    IF headers["contentType"] = H(<<"application/json">>) THEN b ELSE NoBody

\* the units of the Authorization values clients send
AuthUnits == {"Bearer ", "sk-", "ABC"}

\* the Authorization headers clients send: none, or a value
AuthHeaders == {NoH} \cup {H(a) : a \in SeqsUpTo(AuthUnits, MaxAuth) \ {<<>>}}

\* the headers of the request every client of the relay sends
DefaultHeaders ==
    [EmptyHeaders EXCEPT !["host"] = H(<<"proxy.local">>),
                         !["authorization"] = H(<<"Bearer ", "sk-", "ABC">>),
                         !["contentType"] = H(<<"application/json">>),
                         !["xTrace"] = H(<<"t-1">>)]

\* the headers clients send
InboundHeaders ==
    {[DefaultHeaders EXCEPT !["authorization"] = a, !["wsid"] = w, !["contentType"] = t] :
        a \in AuthHeaders, w \in {NoH, H(<<"ws-client">>)},
        t \in {H(<<"application/json">>), H(<<"text/plain">>)}}

\* the configurations: with the prefixes of the deployment, and with ones
\* where the upstream prefix is the client prefix or is empty
ClientPrefix == <<"Bearer ", "sk-">>

Configs(variants, upstreamPrefixes, workspaceIds) ==
    [enableStream : BOOLEAN, modelName : {"default-model"},
     variant : variants, apiKeyPrefix : {ClientPrefix},
     targetApiKeyPrefix : upstreamPrefixes, token : {<<"static-token">>},
     workspaceId : workspaceIds]

----------------------------------------------------------------------------
(* Initial state: the server is up, no request has arrived *)

NoRequest == [strategy |-> "none", body |-> NoBody]

\* no upstream request yet
NoOutbound == [method |-> "", headers |-> EmptyHeaders, hasData |-> FALSE]

\* what every run starts from, whatever the configuration and the client
BaseInit ==
    /\ pc = [r \in Reqs |-> "idle"]
    /\ route = [r \in Reqs |-> "none"]
    /\ inb = [r \in Reqs |-> NoBody]
    /\ fwd = [r \in Reqs |-> NoRequest]
    /\ res = [r \in Reqs |-> NewRes]
    /\ up = [r \in Reqs |-> NoStream]
    /\ cli = [r \in Reqs |-> [connected |-> TRUE, consumed |-> 0]]
    /\ uuidCount = 0
    /\ out = [r \in Reqs |-> NoOutbound]

\* either entry point, the prefixes of the deployment, clients that send the
\* default headers
Init ==
    /\ BaseInit
    /\ cfg \in Configs({"index", "venus"}, {<<"Bearer ", "up-">>}, {<<"ws-1">>})
    /\ req = [r \in Reqs |-> DefaultHeaders]

\* either entry point, every configuration of the prefixes and of the
\* workspace id, a client that sends any of the headers
InitProxy ==
    /\ BaseInit
    /\ cfg \in {c \in Configs({"index", "venus"},
                              {<<"Bearer ", "up-">>, ClientPrefix, <<>>},
                              {<<>>, <<"ws-1">>}) : ~c.enableStream}
    /\ req \in {[r \in Reqs |-> IF r = 1 THEN h ELSE DefaultHeaders] :
                  h \in InboundHeaders}

----------------------------------------------------------------------------
(* The route handlers, up to their first await *)

\* a variant whose streaming strategy posts the body as it is
DispatchKeepsStream(r, body, stream) ==
    /\ fwd' = [fwd EXCEPT ![r] =
                 [strategy |-> IF stream THEN "stream" ELSE "sync", body |-> body]]
    /\ pc' = [pc EXCEPT ![r] = IF stream THEN "awaitStream" ELSE "awaitSync"]

\* `if (stream) await handleStreaming(...) else await handleNonStreaming(...)`;
\* handleStreaming sets body.stream = true before it posts the body
Dispatch(r, body, stream) ==
    /\ fwd' = [fwd EXCEPT ![r] =
                 IF stream
                 THEN [strategy |-> "stream", body |-> [body EXCEPT !.stream = Bool(TRUE)]]
                 ELSE [strategy |-> "sync", body |-> body]]
    /\ pc' = [pc EXCEPT ![r] = IF stream THEN "awaitStream" ELSE "awaitSync"]

\* app.post('/v1/chat/completions')
ChatRoute(r, b) ==
    /\ pc[r] = "idle"
    /\ LET n == uuidCount + 1
           body == Normalize(ExpressJson(req[r], b), n, cfg)
       IN /\ uuidCount' = IF body.query_id = QueryId(n) THEN n ELSE uuidCount
          /\ Dispatch(r, body, Truthy(body.stream))
    /\ out' = [out EXCEPT ![r] = [method |-> "POST",
                                  headers |-> BuildHeaders(AuthOf(req[r]), cfg),
                                  hasData |-> TRUE]]
    /\ inb' = [inb EXCEPT ![r] = b]
    /\ route' = [route EXCEPT ![r] = "chat"]
    /\ UNCHANGED <<cfg, res, up, cli, req>>

\* app.post('/v1/completions'): const stream = body.stream || false
CompletionsRoute(r, b) ==
    /\ pc[r] = "idle"
    /\ LET body == ExpressJson(req[r], b)
       IN Dispatch(r, body, Truthy(body.stream))
    /\ out' = [out EXCEPT ![r] = [method |-> "POST",
                                  headers |-> BuildHeaders(AuthOf(req[r]), cfg),
                                  hasData |-> TRUE]]
    /\ inb' = [inb EXCEPT ![r] = b]
    /\ route' = [route EXCEPT ![r] = "completions"]
    /\ UNCHANGED <<cfg, res, up, cli, uuidCount, req>>

\* app.get('/v1/models'): buildHeaders without Content-Type, httpClient.get
ModelsRoute(r) ==
    /\ pc[r] = "idle"
    /\ out' = [out EXCEPT ![r] =
                 [method |-> "GET",
                  headers |-> [BuildHeaders(AuthOf(req[r]), cfg)
                                  EXCEPT !["contentType"] = NoH],
                  hasData |-> FALSE]]
    /\ fwd' = [fwd EXCEPT ![r] = [strategy |-> "models", body |-> NoBody]]
    /\ pc' = [pc EXCEPT ![r] = "awaitModels"]
    /\ route' = [route EXCEPT ![r] = "models"]
    /\ UNCHANGED <<cfg, inb, res, up, cli, uuidCount, req>>

\* app.all('*'): data is req.body unless the method is GET or HEAD
CatchAllRoute(r, method, b) ==
    /\ pc[r] = "idle"
    /\ LET hasData == method \notin {"GET", "HEAD"}
       IN /\ out' = [out EXCEPT ![r] = [method |-> method,
                                        headers |-> CatchAllHeaders(req[r], cfg),
                                        hasData |-> hasData]]
          /\ fwd' = [fwd EXCEPT ![r] =
                       [strategy |-> "passthrough",
                        body |-> IF hasData THEN ExpressJson(req[r], b) ELSE NoBody]]
    /\ pc' = [pc EXCEPT ![r] = "awaitAny"]
    /\ inb' = [inb EXCEPT ![r] = b]
    /\ route' = [route EXCEPT ![r] = "any"]
    /\ UNCHANGED <<cfg, res, up, cli, uuidCount, req>>

----------------------------------------------------------------------------
(* The continuations after the upstream call settles *)

\* handleStreaming resumes after `await httpClient.post(...)`
StreamSettles(r, status) ==
    /\ pc[r] = "awaitStream"
    /\ LET a == AfterPost(res[r], Settle(status))
       IN /\ res' = [res EXCEPT ![r] = a.res]
          /\ pc' = [pc EXCEPT ![r] = a.pc]
          /\ up' = [up EXCEPT ![r].answered = TRUE, ![r].status = status,
                               ![r].attached = a.attached]
    /\ UNCHANGED <<cfg, route, inb, fwd, cli, uuidCount, req, out>>

\* a variant of the catch block that answers with the upstream's status
RouteCatchKeepsStatus(r, o) ==
    ResJson(ResStatus(r, IF o.status # 0 THEN o.status ELSE 500),
            ErrorEnvelope("Error forwarding request: ", o.text))

\* the catch block of a route handler:
\* res.status(500).json({ error: { message, type: 'server_error' } })
RouteCatch(r, o) ==
    ResJson(ResStatus(r, 500), ErrorEnvelope("Error forwarding request: ", o.text))

\* res.send(x): sends x and ends the response
ResSend(r, x) ==
    IF r.headSent THEN [r EXCEPT !.afterEnd = @ + 1]
    ELSE ResEnd(ResWrite(r, x))

\* the headers of the upstream's answers on the catch-all route
UpstreamHeaders ==
    {[contentType |-> "application/json", cacheControl |-> "no-store", connection |-> ""],
     [contentType |-> "text/plain", cacheControl |-> "", connection |-> "close"]}

\* handleNonStreaming resumes, and the route handler after it
SyncSettles(r, status) ==
    /\ pc[r] = "awaitSync"
    /\ LET o == Settle(status)
       IN IF o.kind = "resolve"
          THEN /\ res' = [res EXCEPT ![r] =
                            ResJson(ResSet(ResStatus(@, o.status), JsonHeaders),
                                    JsonBody("completion"))]
               /\ pc' = [pc EXCEPT ![r] = "syncDone"]
          ELSE /\ res' = [res EXCEPT ![r] = RouteCatch(@, o)]
               /\ pc' = [pc EXCEPT ![r] = "syncFailed"]
    /\ up' = [up EXCEPT ![r].answered = TRUE, ![r].status = status]
    /\ UNCHANGED <<cfg, route, inb, fwd, cli, uuidCount, req, out>>

\* the models route resumes after `await httpClient.get(...)`
ModelsSettles(r, status) ==
    /\ pc[r] = "awaitModels"
    /\ LET o == Settle(status)
       IN IF o.kind = "resolve"
          THEN /\ res' = [res EXCEPT ![r] =
                            ResJson(ResSet(ResStatus(@, o.status), JsonHeaders),
                                    JsonBody("models"))]
               /\ pc' = [pc EXCEPT ![r] = "syncDone"]
          ELSE /\ res' = [res EXCEPT ![r] = RouteCatch(@, o)]
               /\ pc' = [pc EXCEPT ![r] = "syncFailed"]
    /\ up' = [up EXCEPT ![r].answered = TRUE, ![r].status = status]
    /\ UNCHANGED <<cfg, route, inb, fwd, cli, uuidCount, req, out>>

\* a variant that answers as the models route does, with its own headers
CatchAllSettlesAsJson(r, status, headers) ==
    /\ pc[r] = "awaitAny"
    /\ LET o == Settle(status)
       IN IF o.kind = "resolve"
          THEN /\ res' = [res EXCEPT ![r] =
                            ResJson(ResSet(ResStatus(@, o.status), JsonHeaders),
                                    JsonBody("upstream-body"))]
               /\ pc' = [pc EXCEPT ![r] = "syncDone"]
          ELSE /\ res' = [res EXCEPT ![r] = RouteCatch(@, o)]
               /\ pc' = [pc EXCEPT ![r] = "syncFailed"]
    /\ up' = [up EXCEPT ![r].answered = TRUE, ![r].status = status,
                         ![r].headers = headers]
    /\ UNCHANGED <<cfg, route, inb, fwd, cli, uuidCount, req, out>>

\* the catch-all route resumes after `await httpClient.request(...)`:
\* res.status(response.status).set(response.headers).send(response.data)
CatchAllSettles(r, status, headers) ==
    /\ pc[r] = "awaitAny"
    /\ LET o == Settle(status)
       IN IF o.kind = "resolve"
          THEN /\ res' = [res EXCEPT ![r] =
                            ResSend(ResSet(ResStatus(@, o.status), headers),
                                    JsonBody("upstream-body"))]
               /\ pc' = [pc EXCEPT ![r] = "syncDone"]
          ELSE /\ res' = [res EXCEPT ![r] = RouteCatch(@, o)]
               /\ pc' = [pc EXCEPT ![r] = "syncFailed"]
    /\ up' = [up EXCEPT ![r].answered = TRUE, ![r].status = status,
                         ![r].headers = headers]
    /\ UNCHANGED <<cfg, route, inb, fwd, cli, uuidCount, req, out>>

----------------------------------------------------------------------------
(* The events of the upstream stream, each running the callback attached *)

\* a variant whose callback writes the chunk to every response being relayed
UpstreamDataShared(r, c) ==
    /\ up[r].attached /\ up[r].term = "none"
    /\ Len(up[r].sent) < MaxChunks
    /\ up' = [up EXCEPT ![r].sent = Append(@, c)]
    /\ res' = [q \in Reqs |-> IF up[q].attached THEN OnData(res[q], c) ELSE res[q]]
    /\ UNCHANGED <<cfg, pc, route, inb, fwd, cli, uuidCount, req, out>>

\* response.data emits 'data' with chunk c
UpstreamData(r, c) ==
    /\ up[r].attached /\ up[r].term = "none"
    /\ Len(up[r].sent) < MaxChunks
    /\ up' = [up EXCEPT ![r].sent = Append(@, c)]
    /\ res' = [res EXCEPT ![r] = OnData(@, c)]
    /\ UNCHANGED <<cfg, pc, route, inb, fwd, cli, uuidCount, req, out>>

UpstreamEnd(r) ==
    /\ up[r].attached /\ up[r].term = "none"
    /\ up' = [up EXCEPT ![r].term = "end"]
    /\ res' = [res EXCEPT ![r] = OnEnd(@)]
    /\ UNCHANGED <<cfg, pc, route, inb, fwd, cli, uuidCount, req, out>>

UpstreamError(r, m) ==
    /\ up[r].attached /\ up[r].term = "none"
    /\ up' = [up EXCEPT ![r].term = "error"]
    /\ res' = [res EXCEPT ![r] = OnError(@, m)]
    /\ UNCHANGED <<cfg, pc, route, inb, fwd, cli, uuidCount, req, out>>

\* events delivered after the stream's end or error event: the callbacks are
\* never detached, so they run again
LateData(r, c) ==
    /\ up[r].attached /\ up[r].term # "none" /\ up[r].late < MaxLate
    /\ up' = [up EXCEPT ![r].late = @ + 1]
    /\ res' = [res EXCEPT ![r] = OnData(@, c)]
    /\ UNCHANGED <<cfg, pc, route, inb, fwd, cli, uuidCount, req, out>>

LateEnd(r) ==
    /\ up[r].attached /\ up[r].term # "none" /\ up[r].late < MaxLate
    /\ up' = [up EXCEPT ![r].late = @ + 1]
    /\ res' = [res EXCEPT ![r] = OnEnd(@)]
    /\ UNCHANGED <<cfg, pc, route, inb, fwd, cli, uuidCount, req, out>>

LateError(r, m) ==
    /\ up[r].attached /\ up[r].term # "none" /\ up[r].late < MaxLate
    /\ up' = [up EXCEPT ![r].late = @ + 1]
    /\ res' = [res EXCEPT ![r] = OnError(@, m)]
    /\ UNCHANGED <<cfg, pc, route, inb, fwd, cli, uuidCount, req, out>>

----------------------------------------------------------------------------
(* The client: it reads what was written to it, and it may go away *)

\* bytes written toward the client and not yet read by it
Pending(r) == Len(res[r].body) - cli[r].consumed

ClientReads(r) ==
    /\ cli[r].connected /\ Pending(r) > 0
    /\ cli' = [cli EXCEPT ![r].consumed = @ + 1]
    /\ UNCHANGED <<cfg, pc, route, inb, fwd, res, up, uuidCount, req, out>>

ClientDisconnects(r) ==
    /\ pc[r] # "idle" /\ cli[r].connected /\ ~res[r].ended
    /\ cli' = [cli EXCEPT ![r].connected = FALSE]
    /\ UNCHANGED <<cfg, pc, route, inb, fwd, res, up, uuidCount, req, out>>

----------------------------------------------------------------------------
(* Specifications *)

\* one request
Solo == {1}

\* the relay: one request, every upstream and client event
Next ==
    \/ \E r \in Solo, b \in RelayBodies : ChatRoute(r, b)
    \/ \E r \in Solo, b \in CompletionBodies : CompletionsRoute(r, b)
    \/ \E r \in Solo, s \in UpstreamAnswers : StreamSettles(r, s)
    \/ \E r \in Solo, s \in UpstreamAnswers : SyncSettles(r, s)
    \/ \E r \in Solo, c \in Chunks : UpstreamData(r, c)
    \/ \E r \in Solo : UpstreamEnd(r)
    \/ \E r \in Solo, m \in StreamErrors : UpstreamError(r, m)
    \/ \E r \in Solo, c \in Chunks : LateData(r, c)
    \/ \E r \in Solo : LateEnd(r)
    \/ \E r \in Solo, m \in StreamErrors : LateError(r, m)
    \/ \E r \in Solo : ClientReads(r)
    \/ \E r \in Solo : ClientDisconnects(r)

Spec == Init /\ [][Next]_vars

\* the normaliser and the dispatch: one request, every body
NextNorm ==
    \/ \E r \in Solo, b \in Bodies : ChatRoute(r, b)
    \/ \E r \in Solo, b \in CompletionBodies : CompletionsRoute(r, b)
    \/ \E r \in Solo, s \in UpstreamAnswers : StreamSettles(r, s)
    \/ \E r \in Solo, s \in UpstreamAnswers : SyncSettles(r, s)

SpecNorm == Init /\ [][NextNorm]_vars

\* the four routes: one request, every configuration and every inbound header
ProxyBodies ==
    [query_id : {Str("q-client")},
     messages : {Messages(<<[role |-> "user", content |-> "hi"]>>)},
     model : {Str("m-client")}, stream : {Bool(TRUE), Bool(FALSE)}]

NextProxy ==
    \/ \E r \in Solo, b \in ProxyBodies : ChatRoute(r, b)
    \/ \E r \in Solo, b \in ProxyBodies : CompletionsRoute(r, b)
    \/ \E r \in Solo : ModelsRoute(r)
    \/ \E r \in Solo, m \in {"GET", "POST"}, b \in ProxyBodies : CatchAllRoute(r, m, b)
    \/ \E r \in Solo, s \in UpstreamAnswers : StreamSettles(r, s)
    \/ \E r \in Solo, s \in UpstreamAnswers : SyncSettles(r, s)
    \/ \E r \in Solo, s \in UpstreamAnswers : ModelsSettles(r, s)
    \/ \E r \in Solo, s \in UpstreamAnswers, h \in UpstreamHeaders :
          CatchAllSettles(r, s, h)

SpecProxy == InitProxy /\ [][NextProxy]_vars

\* two requests that differ in their Authorization header, on the four routes
PairAuthHeaders ==
    {NoH, H(<<"ABC">>), H(<<"Bearer ", "sk-", "ABC">>), H(<<"Bearer ", "sk-", "sk-">>)}

PairBodies == {b \in ProxyBodies : b.stream = Bool(FALSE)}

InitPair ==
    /\ BaseInit
    /\ cfg \in {c \in Configs({"index", "venus"}, {<<"Bearer ", "up-">>}, {<<"ws-1">>}) :
                  ~c.enableStream}
    /\ req \in {[r \in Reqs |-> [DefaultHeaders EXCEPT !["authorization"] = a[r]]] :
                  a \in [Reqs -> PairAuthHeaders]}

NextPair ==
    \/ \E r \in Reqs, b \in PairBodies : ChatRoute(r, b)
    \/ \E r \in Reqs, b \in PairBodies : CompletionsRoute(r, b)
    \/ \E r \in Reqs : ModelsRoute(r)
    \/ \E r \in Reqs, m \in {"GET", "POST"}, b \in PairBodies : CatchAllRoute(r, m, b)
    \/ \E r \in Reqs, s \in UpstreamAnswers : SyncSettles(r, s)
    \/ \E r \in Reqs, s \in UpstreamAnswers : ModelsSettles(r, s)
    \/ \E r \in Reqs, s \in UpstreamAnswers, h \in UpstreamHeaders :
          CatchAllSettles(r, s, h)

SpecPair == InitPair /\ [][NextPair]_vars

\* concurrent requests, fewer bodies
NextMulti ==
    \/ \E r \in Reqs, b \in FewBodies : ChatRoute(r, b)
    \/ \E r \in Reqs, s \in UpstreamAnswers : StreamSettles(r, s)
    \/ \E r \in Reqs, s \in UpstreamAnswers : SyncSettles(r, s)
    \/ \E r \in Reqs, c \in Chunks : UpstreamData(r, c)
    \/ \E r \in Reqs : UpstreamEnd(r)
    \/ \E r \in Reqs, m \in StreamErrors : UpstreamError(r, m)

SpecMulti == Init /\ [][NextMulti]_vars

----------------------------------------------------------------------------
(* State functions used by the properties *)

\* the requests handed to handleStreaming
Streaming(r) == fwd[r].strategy = "stream"

\* the chunks of a sequence, as written by res.write(chunk)
BytesOf(chunks) == [i \in 1..Len(chunks) |-> Bytes(chunks[i])]

IsErrorFrame(x) == x.kind = "errorFrame"

\* the state of the streaming session of request r (spec 4.4)
SessionState(r) ==
    CASE pc[r] = "awaitStream" -> "INIT"
      [] pc[r] = "relaying" /\ up[r].term = "none" -> "RELAYING"
      [] pc[r] = "relaying" /\ up[r].term = "end" -> "CLOSED_OK"
      [] pc[r] = "relaying" /\ up[r].term = "error" -> "CLOSED_ERR"
      [] pc[r] \in {"rejected", "failed"} -> "REJECTED"
      [] OTHER -> "NONE"

----------------------------------------------------------------------------
(* C1 *)

\* C1: a streaming attempt that fails before the relay starts (the upstream
\* call rejects, or the upstream answers with a status other than 200) leaves
\* the response closed with a body of exactly one error frame followed by
\* exactly one [DONE] frame, and no JSON error envelope.
C1_FailedAttemptEndsWithErrorThenDone ==
    \A r \in Reqs :
        (Streaming(r) /\ pc[r] \in {"failed", "rejected"}) =>
            /\ res[r].ended
            /\ Len(res[r].body) = 2
            /\ IsErrorFrame(res[r].body[1])
            /\ res[r].body[2] = DoneFrame

----------------------------------------------------------------------------
(* C2 *)

\* C2: once the upstream stream has raised an error after k chunks, the
\* response holds exactly those k chunks in order, then one error frame,
\* then one [DONE] frame, and is closed, whatever events arrive afterwards.
C2_ErrorAfterChunks ==
    \A r \in Reqs :
        (up[r].attached /\ up[r].term = "error") =>
            /\ res[r].ended
            /\ \E m \in StreamErrors :
                 res[r].body = BytesOf(up[r].sent)
                                 \o <<ErrorFrame("Streaming error: ", m), DoneFrame>>

\* the stream failed after one chunk and delivered a further event afterwards
C2_Witness ==
    \E r \in Reqs :
        /\ up[r].attached /\ up[r].term = "error"
        /\ Len(up[r].sent) = 1 /\ up[r].late = MaxLate
        /\ Len(res[r].body) = 3 /\ res[r].ended
        /\ res[r].afterEnd > 0

----------------------------------------------------------------------------
(* C3 *)

\* C3: while the relay runs the response body is the sequence of chunks the
\* upstream delivered, unchanged and in order; after a normal end of the
\* upstream stream the body is the whole sequence, the response is closed and
\* no frame was added; after an error the chunks are a prefix of the body.
C3_RelayIsTransparent ==
    \A r \in Reqs :
        up[r].attached =>
            /\ up[r].term = "none" => (res[r].body = BytesOf(up[r].sent) /\ ~res[r].ended)
            /\ up[r].term = "end" => (res[r].body = BytesOf(up[r].sent) /\ res[r].ended)
            /\ Len(res[r].body) >= Len(up[r].sent)
            /\ SubSeq(res[r].body, 1, Len(up[r].sent)) = BytesOf(up[r].sent)

\* two different chunks were relayed and the stream ended normally
C3_Witness ==
    \E r \in Reqs :
        /\ up[r].attached /\ up[r].term = "end"
        /\ Len(up[r].sent) = 2 /\ up[r].sent[1] # up[r].sent[2]
        /\ res[r].body = BytesOf(up[r].sent) /\ res[r].ended

----------------------------------------------------------------------------
(* C4 *)

\* C4: on every path of a streaming request the head sent to the client
\* announces an event stream (Content-Type: text/event-stream, Cache-Control:
\* no-cache, Connection: keep-alive), and it is sent before the first body byte.
C4_StreamingHeadIsEventStream ==
    \A r \in Reqs :
        Streaming(r) =>
            /\ res[r].headSent => res[r].head.headers = SseHeaders
            /\ Len(res[r].body) > 0 => res[r].headSent

----------------------------------------------------------------------------
(* C5 *)

\* C5: after the client of a streaming relay has disconnected, no further
\* upstream chunk is read by the relay (every chunk read is written toward the
\* client by the same callback).
C5_NoRelayAfterDisconnect ==
    [][\A r \in Reqs :
          (up[r].attached /\ ~cli[r].connected) =>
              up'[r].sent = up[r].sent]_vars

----------------------------------------------------------------------------
(* C6 *)

\* C6: while the client-side buffer is saturated (HighWaterMark or more
\* writes not yet read by the client) the relay reads no further chunk from
\* the upstream (every chunk read is written toward the client at once).
C6_PausedWhileSaturated ==
    [][\A r \in Reqs :
          (up[r].attached /\ Pending(r) >= HighWaterMark) =>
              up'[r].sent = up[r].sent]_vars

----------------------------------------------------------------------------
(* C7 *)

\* C7: when the upstream answers a streaming request with a status other
\* than 200 the relay never starts: the session is REJECTED, the head
\* 200 + event-stream is not sent, no callback is attached to the upstream
\* stream and no upstream chunk is read or written to the client.
C7_Non200NeverRelays ==
    \A r \in Reqs :
        (Streaming(r) /\ up[r].answered /\ up[r].status \notin {0, 200}) =>
            /\ SessionState(r) = "REJECTED"
            /\ ~up[r].attached
            /\ ~(res[r].head.status = 200 /\ res[r].head.headers = SseHeaders)
            /\ up[r].sent = <<>>
            /\ \A i \in 1..Len(res[r].body) :
                 IsErrorFrame(res[r].body[i]) \/ res[r].body[i] = DoneFrame

\* the upstream answered 201, which axios hands to the code as a response
C7_Witness ==
    \E r \in Reqs :
        /\ Streaming(r) /\ up[r].answered /\ up[r].status = 201
        /\ pc[r] = "rejected" /\ res[r].ended /\ res[r].head.status = 201

----------------------------------------------------------------------------
(* C8 *)

\* C8: the chat route replaces `stream` by the configured default exactly
\* when the client sent none; a `stream` the client sent (true or false) is
\* kept, so an explicit `stream: false` is dispatched synchronously.
C8_ExplicitStreamIsKept ==
    \A r \in Reqs :
        (route[r] = "chat" /\ pc[r] # "idle") =>
            /\ inb[r].stream = Undefined =>
                 fwd[r].strategy = (IF cfg.enableStream THEN "stream" ELSE "sync")
            /\ inb[r].stream.tag = "boolean" =>
                 /\ fwd[r].strategy = (IF inb[r].stream.b THEN "stream" ELSE "sync")
                 /\ fwd[r].body.stream = inb[r].stream

----------------------------------------------------------------------------
(* C9 *)

\* C9: a chat request whose `messages` has exactly one element (whatever its
\* role) is forwarded with two elements, {role: "system", content: ""} and
\* then the original one; `messages` of any other length, or absent, is
\* forwarded unchanged; the forwarded `messages` never has exactly one element.
C9_SoleMessageGetsSystemMessage ==
    \A r \in Reqs :
        (route[r] = "chat" /\ pc[r] # "idle") =>
            /\ IF inb[r].messages.present /\ Len(inb[r].messages.items) = 1
               THEN fwd[r].body.messages =
                        Messages(<<SystemMessage, inb[r].messages.items[1]>>)
               ELSE fwd[r].body.messages = inb[r].messages
            /\ Len(fwd[r].body.messages.items) # 1

\* the sole message already was a system message, and the body went upstream
C9_Witness ==
    \E r \in Reqs :
        /\ route[r] = "chat" /\ pc[r] \in {"syncDone", "relaying"}
        /\ inb[r].messages = Messages(<<[role |-> "system", content |-> "be brief"]>>)
        /\ Len(fwd[r].body.messages.items) = 2
        /\ fwd[r].body.messages.items[1] = SystemMessage

----------------------------------------------------------------------------
(* C10 *)

\* the chat requests whose `query_id` the proxy generated
Generated(r) == route[r] = "chat" /\ pc[r] # "idle" /\ ~Truthy(inb[r].query_id)

\* C10: a chat request whose `query_id` is absent or empty is forwarded with
\* a non-empty `query_<uuid>` whose identifier differs from the one generated
\* for any other request; a non-empty `query_id` of the client is forwarded
\* unchanged.
C10_QueryIdIsFresh ==
    \A r \in Reqs :
        (route[r] = "chat" /\ pc[r] # "idle") =>
            IF Generated(r)
            THEN /\ fwd[r].body.query_id.tag = "string"
                 /\ fwd[r].body.query_id.s = "query_"
                 /\ fwd[r].body.query_id.n >= 1
                 /\ \A q \in Reqs \ {r} :
                      Generated(q) => fwd[q].body.query_id # fwd[r].body.query_id
            ELSE fwd[r].body.query_id = inb[r].query_id

\* two requests in flight, one without `query_id` and one with an empty one
C10_Witness ==
    \E r, q \in Reqs :
        /\ r # q /\ Generated(r) /\ Generated(q)
        /\ inb[r].query_id = Undefined /\ inb[q].query_id = Str("")
        /\ fwd[r].body.query_id # fwd[q].body.query_id

----------------------------------------------------------------------------
(* C11 *)

\* C11: a chat request whose `model` is absent or empty is forwarded with the
\* configured default model name as its `model`; a non-empty `model` of the
\* client is forwarded unchanged.
C11_ModelDefaultsWhenMissing ==
    \A r \in Reqs :
        (route[r] = "chat" /\ pc[r] # "idle") =>
            fwd[r].body.model =
                IF inb[r].model \in {Undefined, Str("")}
                THEN Str(cfg.modelName)
                ELSE inb[r].model

\* a chat request with `model: ''` was forwarded with the default
C11_Witness ==
    \E r \in Reqs :
        /\ route[r] = "chat" /\ pc[r] # "idle"
        /\ inb[r].model = Str("")
        /\ fwd[r].body.model = Str(cfg.modelName)

----------------------------------------------------------------------------
(* C17 *)

\* C17: the body the streaming strategy posts carries `stream = true`,
\* whatever `stream` was when the strategy was entered; the synchronous
\* strategy posts only when the dispatch flag was false, so the body it posts
\* has a falsy `stream` and a truthy `stream` of the client is never dispatched
\* synchronously.
C17_StreamForcedTrue ==
    \A r \in Reqs :
        (route[r] \in {"chat", "completions"} /\ pc[r] # "idle") =>
            /\ fwd[r].strategy = "stream" => fwd[r].body.stream = Bool(TRUE)
            /\ fwd[r].strategy = "sync" =>
                 /\ ~Truthy(fwd[r].body.stream)
                 /\ ~Truthy(inb[r].stream)

\* a request with the truthy `stream: 'yes'` was posted by the streaming
\* strategy with `stream: true`
C17_Witness ==
    \E r \in Reqs :
        /\ route[r] \in {"chat", "completions"} /\ pc[r] # "idle"
        /\ inb[r].stream = Str("yes")
        /\ fwd[r].strategy = "stream"
        /\ fwd[r].body.stream = Bool(TRUE)

----------------------------------------------------------------------------
(* C12 *)

\* the requests that were handed to the HTTP client
Sent(r) == pc[r] # "idle"

\* C12: under the token-passthrough policy (index.js), an inbound
\* Authorization value that starts with the client prefix is sent upstream as
\* the upstream prefix followed by the inbound value without its first
\* occurrence of the client prefix, on every route.
C12_PassthroughStripsOnce ==
    \A r \in Reqs :
        LET a == AuthOf(req[r])
            k == Len(cfg.apiKeyPrefix)
        IN (/\ Sent(r) /\ cfg.variant = "index"
            /\ Len(a) >= k /\ SubSeq(a, 1, k) = cfg.apiKeyPrefix) =>
               out[r].headers["authorization"] =
                   H(cfg.targetApiKeyPrefix \o SubSeq(a, k + 1, Len(a)))

\* `Bearer sk-Bearer sk-`, which holds the client prefix twice, became
\* `Bearer up-Bearer sk-`
C12_Witness ==
    \E r \in Reqs :
        /\ Sent(r) /\ cfg.variant = "index"
        /\ cfg.apiKeyPrefix = <<"Bearer ", "sk-">>
        /\ cfg.targetApiKeyPrefix = <<"Bearer ", "up-">>
        /\ AuthOf(req[r]) = <<"Bearer ", "sk-", "Bearer ", "sk-">>
        /\ out[r].headers["authorization"] = H(<<"Bearer ", "up-", "Bearer ", "sk-">>)

----------------------------------------------------------------------------
(* C13 *)

----------------------------------------------------------------------------
(* C14 *)

\* the upstream answered with a 2xx status
Answered2xx(r) == up[r].answered /\ up[r].status >= 200 /\ up[r].status < 300

\* the upstream answered with another status
AnsweredError(r) == up[r].answered /\ up[r].status # 0 /\ ~Answered2xx(r)

\* C14: on the catch-all route, whatever the status of the upstream's answer
\* (2xx or not), the client receives the upstream's status, headers and body,
\* and the body the client sent is the body forwarded upstream.
C14_CatchAllRoundTrip ==
    \A r \in Reqs :
        (route[r] = "any" /\ Sent(r)) =>
            /\ fwd[r].body = inb[r]
            /\ (up[r].answered /\ up[r].status # 0) =>
                 /\ res[r].head.status = up[r].status
                 /\ res[r].head.headers = up[r].headers
                 /\ res[r].body = <<JsonBody("upstream-body")>>

\* C14, amended: on the catch-all route, an answer of the upstream with a 2xx
\* status is returned to the client with the upstream's status, headers and
\* body, and an answer with any other status is replaced by the 500 JSON
\* error envelope; the body forwarded upstream is the client's JSON body when
\* the method is neither GET nor HEAD, and no body is forwarded otherwise.
C14_CatchAllRoundTrip2xx ==
    \A r \in Reqs :
        (route[r] = "any" /\ Sent(r)) =>
            /\ out[r].hasData = (out[r].method \notin {"GET", "HEAD"})
            /\ (out[r].hasData /\ req[r]["contentType"] = H(<<"application/json">>)) =>
                 fwd[r].body = inb[r]
            /\ ~out[r].hasData => fwd[r].body = NoBody
            /\ Answered2xx(r) =>
                 /\ res[r].head.status = up[r].status
                 /\ res[r].head.headers = up[r].headers
                 /\ res[r].body = <<JsonBody("upstream-body")>>
                 /\ res[r].ended
            /\ AnsweredError(r) =>
                 /\ res[r].head.status = 500
                 /\ res[r].body =
                      <<ErrorEnvelope("Error forwarding request: ",
                                      "Request failed with status code")>>

\* a POST with a JSON body that the upstream answered with 201 and text/plain
\* headers
C14_Witness ==
    \E r \in Reqs :
        /\ route[r] = "any" /\ out[r].method = "POST"
        /\ req[r]["contentType"] = H(<<"application/json">>)
        /\ fwd[r].body = inb[r] /\ inb[r] # NoBody
        /\ up[r].answered /\ up[r].status = 201
        /\ up[r].headers.contentType = "text/plain"
        /\ res[r].head = [status |-> 201, headers |-> up[r].headers]
        /\ res[r].body = <<JsonBody("upstream-body")>>

----------------------------------------------------------------------------
(* C15 *)

\* C15: on the catch-all route the outbound headers are the inbound headers
\* without Host, with Authorization replaced by a translated value and with
\* the workspace header set (or, when none is set, as the client sent it);
\* every other header goes upstream with its name and value, and none is added.
C15_CatchAllHeaderFrame ==
    \A r \in Reqs :
        (route[r] = "any" /\ Sent(r)) =>
            /\ \A h \in HeaderNames \ {"host", "authorization", "wsid"} :
                 out[r].headers[h] = req[r][h]
            /\ ~out[r].headers["host"].present
            /\ out[r].headers["authorization"].present
            /\ out[r].headers["wsid"] \in {H(cfg.workspaceId), req[r]["wsid"]}

\* a catch-all request with Host, a trace header and a Content-Type of
\* text/plain went upstream without Host and with the other two as sent
C15_Witness ==
    \E r \in Reqs :
        /\ route[r] = "any" /\ Sent(r)
        /\ req[r]["host"].present /\ ~out[r].headers["host"].present
        /\ req[r]["xTrace"].present /\ out[r].headers["xTrace"] = req[r]["xTrace"]
        /\ req[r]["contentType"] = H(<<"text/plain">>)
        /\ out[r].headers["contentType"] = H(<<"text/plain">>)
        /\ out[r].headers["authorization"] # req[r]["authorization"]

----------------------------------------------------------------------------
(* C16 *)

\* the upstream call of a synchronous path failed: no answer, or an answer
\* with a status that is not 2xx
SyncFailed(r) ==
    /\ Sent(r) /\ fwd[r].strategy # "stream"
    /\ up[r].answered /\ ~Answered2xx(r)

\* C16: on the synchronous paths of the four routes, a failed upstream call
\* (no answer, or an error status) gives the client one response with status
\* 500 and the JSON body {error: {message, type: 'server_error'}}, whatever
\* the upstream's status was.
C16_SyncFailureIs500 ==
    \A r \in Reqs :
        SyncFailed(r) =>
            /\ res[r].head.status = 500
            /\ res[r].head.headers.contentType = "application/json"
            /\ Len(res[r].body) = 1
            /\ res[r].body[1].kind = "errorJson"
            /\ res[r].ended /\ res[r].endCalls = 1 /\ res[r].afterEnd = 0

\* the models route answered 500 to an upstream 404
C16_Witness ==
    \E r \in Reqs :
        /\ SyncFailed(r) /\ up[r].status = 404
        /\ route[r] = "models"
        /\ res[r].head.status = 500

----------------------------------------------------------------------------
(* C18 *)

\* C18: on every route the request sent upstream carries the workspace header
\* exactly when a workspace id is configured, with the configured id as its
\* value.
C18_WorkspaceHeaderIffConfigured ==
    \A r \in Reqs :
        Sent(r) =>
            out[r].headers["wsid"] =
                IF cfg.workspaceId # <<>> THEN H(cfg.workspaceId) ELSE NoH

----------------------------------------------------------------------------
(* C19 *)

\* everything request-scoped of request r
Slot(r) == <<pc[r], route[r], inb[r], fwd[r], out[r], res[r], up[r], cli[r], req[r]>>

\* a step of a handler or of a callback changes the state of one request
StepTouchesOne ==
    \A r \in Reqs :
        Slot(r)' # Slot(r) => \A q \in Reqs \ {r} : Slot(q)' = Slot(q)

\* what a client has received is made of the chunks of its own upstream
\* stream, and requests with the same input are forwarded alike (up to the
\* generated identifier)
OwnStateOnly ==
    /\ \A r \in Reqs :
         up[r].attached =>
             /\ Len(res[r].body) >= Len(up[r].sent)
             /\ SubSeq(res[r].body, 1, Len(up[r].sent)) = BytesOf(up[r].sent)
             /\ up[r].term = "none" => res[r].body = BytesOf(up[r].sent)
    /\ \A r, q \in Reqs :
         (Sent(r) /\ Sent(q) /\ route[r] = route[q]
            /\ inb[r] = inb[q] /\ req[r] = req[q]) =>
             /\ out[r] = out[q]
             /\ fwd[r].strategy = fwd[q].strategy
             /\ [fwd[r].body EXCEPT !.query_id = Undefined]
                  = [fwd[q].body EXCEPT !.query_id = Undefined]

\* C19: whatever the interleaving of the handlers and callbacks of concurrent
\* requests, each step reads and writes the state of one request only, the
\* chunks of a streaming session are written to its own client and to no
\* other, and what is forwarded for a request depends on that request alone.
C19_RequestsAreIsolated == [][StepTouchesOne]_vars /\ []OwnStateOnly

\* two sessions relaying at once, with different chunks
C19_Witness ==
    \E r, q \in Reqs :
        /\ r # q
        /\ up[r].attached /\ up[q].attached
        /\ up[r].term = "none" /\ up[q].term = "none"
        /\ Len(up[r].sent) = 1 /\ Len(up[q].sent) = 1
        /\ up[r].sent # up[q].sent
        /\ res[r].body = BytesOf(up[r].sent)
        /\ res[q].body = BytesOf(up[q].sent)

----------------------------------------------------------------------------
(* C20 *)

\* C20: on the specialized endpoints, whatever the upstream's events, the
\* handler ends the response at most once and calls neither write nor end on
\* it after it has ended, also when a `data`, `end` or `error` callback runs
\* after the relay has closed the client.
C20_NoCallAfterEnd ==
    \A r \in Reqs :
        route[r] \in {"chat", "completions"} =>
            /\ res[r].endCalls <= 1
            /\ res[r].afterEnd = 0

----------------------------------------------------------------------------
(* C21 *)

\* requests r and q differ in nothing but their Authorization header
SameButAuth(r, q) ==
    /\ route[r] = route[q] /\ out[r].method = out[q].method
    /\ inb[r] = inb[q]
    /\ \A h \in HeaderNames \ {"authorization"} : req[r][h] = req[q][h]

\* C21: under the static-token policy (venus.js) the outbound Authorization
\* is the upstream prefix followed by the configured token on every route,
\* whatever Authorization header the client sent (none, one with the client
\* prefix, one without); two requests that differ in that header alone are
\* sent upstream with the same headers and the same body.
C21_StaticTokenIgnoresClient ==
    \A r, q \in Reqs :
        (cfg.variant = "venus" /\ Sent(r) /\ Sent(q)) =>
            /\ out[r].headers["authorization"] = H(cfg.targetApiKeyPrefix \o cfg.token)
            /\ out[r].headers["authorization"] = out[q].headers["authorization"]
            /\ SameButAuth(r, q) => (out[r] = out[q] /\ fwd[r] = fwd[q])

\* under venus.js, a catch-all request without Authorization and one with
\* `Bearer sk-ABC` went upstream with the same headers
C21_Witness ==
    \E r, q \in Reqs :
        /\ cfg.variant = "venus" /\ Sent(r) /\ Sent(q)
        /\ route[r] = "any" /\ SameButAuth(r, q)
        /\ req[r]["authorization"] = NoH
        /\ req[q]["authorization"] = H(<<"Bearer ", "sk-", "ABC">>)
        /\ out[r] = out[q]
        /\ out[r].headers["authorization"] = H(<<"Bearer ", "up-", "static-token">>)

====
